---- MODULE Spec2Model ----
(***************************************************************************)
(* Model of the Starbucks chatbot core: the Order / OrderItem domain       *)
(* model, the PriceCalculator and ChatbotService.process_message with the  *)
(* handlers it dispatches to.                                              *)
(*                                                                         *)
(* Conventions.                                                            *)
(*  - Python None is the string "None" where the other values are strings, *)
(*    and the empty tuple <<>> where the other values are records or       *)
(*    sequences (an Optional[T] holding v is <<v>>).                       *)
(*  - Money is kept in cents (0.50 is 50), so sums are exact.              *)
(*  - A text that the code reads character by character (the payment       *)
(*    selection) is a sequence of one-character strings.                   *)
(*  - A customization token is a sequence of lexemes, ":" being a lexeme   *)
(*    of its own: "leche:almendra" is <<"leche", ":", "almendra">>.        *)
(*  - A handler is an operator from the conversation state (and its        *)
(*    arguments) to a record [cs, resp, exc]: the state it leaves, the     *)
(*    Response it returns, and whether it raised instead of returning.     *)
(***************************************************************************)
EXTENDS Integers, Sequences, FiniteSets, TLC

VARIABLES
    conversation_state,  \* ChatbotService.conversation_state
    response,            \* what the last process_message call returned
    raised,              \* TRUE when the last process_message call raised
    last,                \* the inputs of the last call on the service
    calls,               \* the invocations the last call made of its collaborators
    order,               \* a stand-alone Order driven by add_item/remove_item
    order_raised,        \* TRUE when the last call on `order` raised
    pricing,             \* the last call on a PriceCalculator
    retried,             \* a call through retry_with_backoff, attempt by attempt
    sessions             \* two services and the conversation states they hold

vars == <<conversation_state, response, raised, last, calls, order, order_raised,
         pricing, retried, sessions>>

(***************************************************************************)
(* Bounds of the model.                                                    *)
(***************************************************************************)
\* The largest number of items an order is allowed to grow to.
MaxItems == 2
\* The largest quantity of a stand-alone OrderItem.
MaxQuantity == 2
\* The largest number of customization tokens of a stand-alone OrderItem.
MaxTokens == 2
\* The largest number of retries of a call through retry_with_backoff.
MaxRetries == 5
\* The largest base wait, in seconds, of a call through retry_with_backoff.
MaxBackoff == 3

None == "None"
NoneVal == <<>>
Some(v) == <<v>>
IsNone(o) == o = <<>>
Get(o) == o[1]

RECURSIVE SumSeq(_)
SumSeq(s) == IF s = <<>> THEN 0 ELSE Head(s) + SumSeq(Tail(s))

RECURSIVE SumSet(_, _)
\* sum(d.values()) of a dict d (a function) over its key set keys
SumSet(d, keys) ==
    IF keys = {} THEN 0
    ELSE LET k == CHOOSE x \in keys : TRUE
         IN d[k] + SumSet(d, keys \ {k})

(***************************************************************************)
(* Menu data.  The JSON file is external data; this is a small menu of one *)
(* beverage with two priced sizes and one food.                            *)
(***************************************************************************)
MenuItemAttributes ==
    {"id", "name", "category", "sizes", "prices", "customizations",
     "keywords", "get_base_price", "is_customization_valid"}

BeverageData ==
    <<[id |-> "latte", nombre |-> "Latte", categoria |-> "cafes",
       sizes |-> <<"tall", "grande">>,
       precios |-> [tall |-> 300, grande |-> 350],
       keywords |-> {"latte", "cafe latte"}]>>

FoodData ==
    <<[id |-> "muffin", nombre |-> "Muffin", categoria |-> "panaderia",
       precio |-> 250, keywords |-> {"muffin"}]>>

\* MenuItem built by the repository from an entry of the beverage section
BeverageItem(d) ==
    [id |-> d.id, name |-> d.nombre, category |-> d.categoria,
     sizes |-> d.sizes, prices |-> d.precios]

\* MenuItem built by the repository from an entry of the food section
FoodItem(d) ==
    [id |-> d.id, name |-> d.nombre, category |-> d.categoria,
     sizes |-> <<"individual">>, prices |-> [individual |-> d.precio]]

\* JSONMenuRepository.search_item: first entry whose id or keyword is query
search_item(query) ==
    LET hits == {i \in 1..Len(BeverageData) :
                    query = BeverageData[i].id \/ query \in BeverageData[i].keywords}
    IN IF hits = {} THEN NoneVal
       ELSE Some(BeverageItem(BeverageData[CHOOSE i \in hits : \A j \in hits : i <= j]))

\* JSONMenuRepository.search_food_item
search_food_item(query) ==
    LET hits == {i \in 1..Len(FoodData) :
                    query = FoodData[i].id \/ query \in FoodData[i].keywords}
    IN IF hits = {} THEN NoneVal
       ELSE Some(FoodItem(FoodData[CHOOSE i \in hits : \A j \in hits : i <= j]))

\* get_base_price falling back to the price of the first size
get_base_price_or_first(menu_item, size) ==
    IF size \in DOMAIN menu_item.prices
    THEN menu_item.prices[size] ELSE menu_item.prices[menu_item.sizes[1]]

\* MenuItem.get_base_price: prices.get(size, 0.0)
get_base_price(menu_item, size) ==
    IF size \in DOMAIN menu_item.prices THEN menu_item.prices[size] ELSE 0

\* item.get_calories(size): MenuItem defines no such method, so the
\* attribute lookup raises AttributeError
get_calories_raises == "get_calories" \notin MenuItemAttributes

(***************************************************************************)
(* PriceCalculator                                                         *)
(***************************************************************************)
customization_prices ==
    [leche  |-> [almendra |-> 50, soya |-> 50, avellana |-> 50],
     shots  |-> [extra |-> 75, doble |-> 100],
     syrups |-> [vainilla |-> 50, caramelo |-> 50, avellana |-> 50]]

RECURSIVE Split(_, _)
\* str.split(sep): the parts of token between the occurrences of sep
Split(token, sep) ==
    LET idx == {i \in 1..Len(token) : token[i] = sep}
    IN IF idx = {} THEN <<token>>
       ELSE LET i == CHOOSE x \in idx : \A y \in idx : x <= y
            IN <<SubSeq(token, 1, i - 1)>> \o Split(SubSeq(token, i + 1, Len(token)), sep)

\* `category, option = customization.split(":")` raises ValueError unless
\* the split has exactly two parts
UnpackRaises(token) == Len(Split(token, ":")) # 2

\* a part of a token as a dict key: only a one-lexeme part can be a key
Key(part) == IF Len(part) = 1 THEN part[1] ELSE None

\* PriceCalculator(): a new calculator, with its surcharge table
PriceCalculator == [customization_prices |-> customization_prices]

\* the surcharge a table has for one token, for quantity 1, or -1 when it
\* has none
TokenSurchargeIn(table, token) ==
    LET lookup(category, option) ==
            IF category \in DOMAIN table /\ option \in DOMAIN table[category]
            THEN table[category][option]
            ELSE -1
        unpacked(parts) == lookup(Key(parts[1]), Key(parts[2]))
    IN unpacked(Split(token, ":"))

\* the surcharge of one token for quantity 1, or -1 when it has none
TokenSurcharge(token) == TokenSurchargeIn(customization_prices, token)

\* the breakdown a calculator returns for an item.  exc is TRUE when the
\* call raises.
item_breakdown(self, item) ==
    LET priced(tokens) ==
            {t \in tokens : TokenSurchargeIn(self.customization_prices, t) >= 0}
        breakdown(base_price, keys) ==
            LET result(cp) ==
                    [exc |-> FALSE,
                     base_price |-> base_price * item.quantity,
                     customization_prices |-> cp,
                     total |-> base_price * item.quantity + SumSet(cp, keys)]
            IN result([t \in keys |->
                          TokenSurchargeIn(self.customization_prices, t)
                             * item.quantity])
        priced_item(tokens) ==
            IF \E t \in tokens : UnpackRaises(t)
            THEN [exc |-> TRUE, base_price |-> 0, customization_prices |-> <<>>,
                  total |-> 0]
            ELSE breakdown(get_base_price(item.menu_item, item.size), priced(tokens))
    IN priced_item({item.customizations[i] : i \in 1..Len(item.customizations)})

\* calculate_item_price keeping each surcharge it works out in the table of
\* the calculator, as if line 44 assigned to self.customization_prices
calculate_item_price_writes_table(self, item) ==
    LET result == item_breakdown(self, item)
        written(category, option) ==
            \E t \in DOMAIN result.customization_prices :
               t = <<category, ":", option>>
        table == [category \in DOMAIN self.customization_prices |->
                    [option \in DOMAIN self.customization_prices[category] |->
                        IF ~result.exc /\ written(category, option)
                        THEN result.customization_prices[<<category, ":", option>>]
                        ELSE self.customization_prices[category][option]]]
    IN [self |-> [self EXCEPT !.customization_prices = table],
        item |-> item, result |-> result]

\* a call of PriceCalculator.calculate_item_price: the calculator and the
\* item after the call, and what it returns.  The call assigns to its
\* locals only (base_price, customization_prices, category, option, price,
\* total): it writes neither to self nor to the item or its menu item.
calculate_item_price_call(self, item) ==
    [self |-> self, item |-> item, result |-> item_breakdown(self, item)]

\* PriceCalculator.calculate_item_price.  exc is TRUE when it raises.
calculate_item_price(item) == item_breakdown(PriceCalculator, item)

\* PriceCalculator.calculate_order_total.  exc is TRUE when it raises.
calculate_order_total(order_items) ==
    LET summed(bs) ==
            IF \E i \in 1..Len(order_items) : bs[i].exc
            THEN [exc |-> TRUE, total |-> 0]
            ELSE [exc |-> FALSE,
                  total |-> SumSeq([i \in 1..Len(order_items) |-> bs[i].total])]
    IN summed([i \in 1..Len(order_items) |-> calculate_item_price(order_items[i])])

RECURSIVE order_total_from(_, _, _, _)
\* the loop of calculate_order_total from the k-th item on, total being
\* the sum so far: every item is priced by a call on the same calculator
order_total_from(self, order_items, k, total) ==
    LET next(c) ==
            IF c.result.exc
            THEN [self |-> c.self, order_items |-> order_items,
                  result |-> [exc |-> TRUE, total |-> 0]]
            ELSE order_total_from(c.self, [order_items EXCEPT ![k] = c.item],
                                  k + 1, total + c.result.total)
    IN IF k > Len(order_items)
       THEN [self |-> self, order_items |-> order_items,
             result |-> [exc |-> FALSE, total |-> total]]
       ELSE next(calculate_item_price_call(self, order_items[k]))

\* a call of PriceCalculator.calculate_order_total: the calculator and the
\* items after the call, and what it returns
calculate_order_total_call(self, order_items) ==
    order_total_from(self, order_items, 1, 0)

(***************************************************************************)
(* OrderItem and Order                                                     *)
(***************************************************************************)
OrderItem(menu_item, size, customizations, quantity) ==
    [menu_item |-> menu_item, size |-> size,
     customizations |-> customizations, quantity |-> quantity]

\* OrderItem.calculate_price
calculate_price(item) == get_base_price(item.menu_item, item.size) * item.quantity

\* Order(): a new, empty order
Order == [items |-> <<>>, total |-> 0]

\* Order.calculate_total
calculate_total(o) ==
    [o EXCEPT !.total = SumSeq([i \in 1..Len(o.items) |-> calculate_price(o.items[i])])]

\* add_item without the total worked out again
add_item_keeps_total(o, item) == [o EXCEPT !.items = Append(@, item)]

\* Order.add_item
add_item(o, item) == calculate_total([o EXCEPT !.items = Append(@, item)])

\* list.remove(item) raises ValueError when no element equals item
RemoveRaises(o, item) == \A i \in 1..Len(o.items) : o.items[i] # item

\* remove_item taking out every item equal to its argument
remove_item_every_match(o, item) ==
    LET keep == {x \in 1..Len(o.items) : o.items[x] # item}
        nth(k) == CHOOSE x \in keep : Cardinality({y \in keep : y <= x}) = k
    IN calculate_total([o EXCEPT !.items =
                          [k \in 1..Cardinality(keep) |-> o.items[nth(k)]]])

\* Order.remove_item, when the item is in the order
remove_item(o, item) ==
    LET i == CHOOSE x \in 1..Len(o.items) :
                 o.items[x] = item /\ \A y \in 1..(x - 1) : o.items[y] # item
    IN calculate_total([o EXCEPT !.items =
                          SubSeq(@, 1, i - 1) \o SubSeq(@, i + 1, Len(@))])

\* a remove_item call that takes out the last item when its argument is
\* not in the order
remove_item_or_drop(o, item) ==
    IF RemoveRaises(o, item)
    THEN [exc |-> FALSE,
          order |-> calculate_total([o EXCEPT !.items =
                                       SubSeq(@, 1, Len(@) - 1)])]
    ELSE [exc |-> FALSE, order |-> remove_item(o, item)]

\* a call of Order.remove_item: self.items.remove(item) raises ValueError
\* before anything is changed when no item equals the argument
remove_item_or_raise(o, item) ==
    IF RemoveRaises(o, item)
    THEN [exc |-> TRUE, order |-> o]
    ELSE [exc |-> FALSE, order |-> remove_item(o, item)]

(***************************************************************************)
(* ConversationState, ExtractedEntities, Response                          *)
(***************************************************************************)
\* ConversationState(): a fresh instance.  pending_payment is an attribute
\* the code sets only to True and tests with hasattr; FALSE is "not set".
ConversationState ==
    [current_intent |-> None,
     predicted_intent |-> None,
     current_order |-> NoneVal,
     pending_confirmation |-> FALSE,
     pending_intent_confirmation |-> FALSE,
     last_entities |-> NoneVal,
     last_input |-> NoneVal,
     mode |-> "query",
     context |-> <<>>,
     pending_payment |-> FALSE]

\* the attributes of an ExtractedEntities instance
ExtractedEntitiesAttributes == {"bebida", "tamano", "personalizaciones"}

ExtractedEntities(bebida, tamano, personalizaciones) ==
    [bebida |-> bebida, tamano |-> tamano, personalizaciones |-> personalizaciones]

\* NLPProcessor.extract_entities: what it takes from a message naming a
\* beverage, a size, customizations and a food.  It searches the beverage
\* keywords, the sizes and the customization options, and nothing else,
\* and it returns each customization it finds as the token "type:option".
extract_entities(message) ==
    ExtractedEntities(message.bebida, message.tamano,
                      [i \in 1..Len(message.personalizaciones) |->
                          <<message.personalizaciones[i][1], ":",
                            message.personalizaciones[i][2]>>])

\* entities.alimento: ExtractedEntities has no such attribute, so reading
\* it raises AttributeError
alimento_raises == "alimento" \notin ExtractedEntitiesAttributes

Response(text, suggested_actions, o) ==
    [text |-> text, suggested_actions |-> suggested_actions, order |-> o]

NoResponse == Response(<<>>, <<>>, NoneVal)

Return(cs, resp) == [cs |-> cs, resp |-> resp, exc |-> FALSE]
Raise(cs) == [cs |-> cs, resp |-> NoResponse, exc |-> TRUE]

\* bool(current_order): an Order defines neither __bool__ nor __len__, so
\* every Order object is truthy and only None is falsy
Truthy(current_order) == ~IsNone(current_order)

(***************************************************************************)
(* str.lower and str.strip on a text                                       *)
(***************************************************************************)
UpperCase == <<"A", "B", "C", "D", "E", "F", "G", "H", "I", "J", "K", "L", "M",
               "N", "O", "P", "Q", "R", "S", "T", "U", "V", "W", "X", "Y", "Z">>
LowerCase == <<"a", "b", "c", "d", "e", "f", "g", "h", "i", "j", "k", "l", "m",
               "n", "o", "p", "q", "r", "s", "t", "u", "v", "w", "x", "y", "z">>
Whitespace == {" ", "\t", "\n"}

LowerChar(c) ==
    IF \E i \in 1..Len(UpperCase) : UpperCase[i] = c
    THEN LowerCase[CHOOSE i \in 1..Len(UpperCase) : UpperCase[i] = c]
    ELSE c

Lower(text) == [i \in 1..Len(text) |-> LowerChar(text[i])]

Strip(text) ==
    LET keep == {i \in 1..Len(text) : text[i] \notin Whitespace}
    IN IF keep = {} THEN <<>>
       ELSE SubSeq(text,
                   CHOOSE i \in keep : \A j \in keep : i <= j,
                   CHOOSE i \in keep : \A j \in keep : i >= j)

\* the keys of the payment_methods dict of _handle_payment, with the
\* method each selects
payment_methods ==
    {<< <<"1">>, "Efectivo" >>,
     << <<"2">>, "Transferencia" >>,
     << <<"3">>, "Tarjeta" >>,
     << <<"4">>, "Aplicacion" >>,
     << <<"e", "f", "e", "c", "t", "i", "v", "o">>, "Efectivo" >>,
     << <<"t", "r", "a", "n", "s", "f", "e", "r", "e", "n", "c", "i", "a">>, "Transferencia" >>,
     << <<"t", "a", "r", "j", "e", "t", "a">>, "Tarjeta" >>,
     << <<"a", "p", "l", "i", "c", "a", "c", "i", "o", "n">>, "Aplicacion" >>}

\* payment_methods.get(input_text)
payment_methods_get(input_text) ==
    IF \E p \in payment_methods : p[1] = input_text
    THEN (CHOOSE p \in payment_methods : p[1] = input_text)[2]
    ELSE None

(***************************************************************************)
(* IntentClassifier.predict and its retry decorator                        *)
(***************************************************************************)
RECURSIVE retry_attempt(_, _, _, _, _)
\* one round of the loop of the wrapper of retry_with_backoff: attempt is
\* the loop variable, outcomes[attempt + 1] tells whether the operation
\* returns in this attempt, waits are the sleeps made so far
retry_attempt(retries, backoff_in_seconds, outcomes, attempt, waits) ==
    IF outcomes[attempt + 1]
    THEN [exc |-> FALSE, attempts |-> attempt + 1, waits |-> waits]
    ELSE IF attempt = retries
    THEN [exc |-> TRUE, attempts |-> attempt + 1, waits |-> waits]
    ELSE retry_attempt(retries, backoff_in_seconds, outcomes, attempt + 1,
                       Append(waits, backoff_in_seconds * 2 ^ attempt))

\* retry_with_backoff(retries, backoff_in_seconds) around an operation
\* whose attempts have the given outcomes: whether the call raises, the
\* number of times the operation was invoked, and the sleeps
retry_with_backoff(retries, backoff_in_seconds, outcomes) ==
    retry_attempt(retries, backoff_in_seconds, outcomes, 0, <<>>)

\* no call through the wrapper has been made
NoWrapperCall ==
    [status |-> "idle", retries |-> 0, backoff_in_seconds |-> 0, attempt |-> 0,
     outcomes |-> <<>>, waits |-> <<>>, result |-> 0, error |-> None]

\* the wrapper entered: last_exception = None, and the loop at attempt 0
wrapper(retries, backoff_in_seconds) ==
    [status |-> "running", retries |-> retries,
     backoff_in_seconds |-> backoff_in_seconds, attempt |-> 0,
     outcomes |-> <<>>, waits |-> <<>>, result |-> 0, error |-> None]

\* a round of the loop that goes on to the next attempt after the
\* operation has returned, unless it is the last one
wrapper_round_goes_on(w, returns) ==
    LET invoked == [w EXCEPT !.outcomes = Append(@, returns)]
    IN IF w.attempt = w.retries
       THEN IF returns
            THEN [invoked EXCEPT !.status = "returned", !.result = Len(invoked.outcomes)]
            ELSE [invoked EXCEPT !.status = "raised", !.error = "RuntimeError"]
       ELSE [invoked EXCEPT !.attempt = @ + 1,
                            !.waits = Append(@, w.backoff_in_seconds * 2 ^ w.attempt)]

\* a round of the loop that sleeps after every failed attempt, the last one
\* too
wrapper_round_sleeps_last(w, returns) ==
    LET invoked == [w EXCEPT !.outcomes = Append(@, returns)]
        slept == [invoked EXCEPT
                     !.waits = Append(@, w.backoff_in_seconds * 2 ^ w.attempt)]
    IN IF returns
       THEN [invoked EXCEPT !.status = "returned", !.result = Len(invoked.outcomes)]
       ELSE IF w.attempt = w.retries
       THEN [slept EXCEPT !.status = "raised", !.error = "RuntimeError"]
       ELSE [slept EXCEPT !.attempt = @ + 1]

\* one round of the loop of the wrapper: the operation is invoked and
\* returns or raises.  result is the number of the attempt whose value the
\* wrapper returns.
wrapper_round(w, returns) ==
    LET invoked == [w EXCEPT !.outcomes = Append(@, returns)]
    IN IF returns
       THEN [invoked EXCEPT !.status = "returned", !.result = Len(invoked.outcomes)]
       ELSE IF w.attempt = w.retries
       THEN [invoked EXCEPT !.status = "raised", !.error = "RuntimeError"]
       ELSE [invoked EXCEPT !.attempt = @ + 1,
                            !.waits = Append(@, w.backoff_in_seconds * 2 ^ w.attempt)]

\* @retry_with_backoff(retries=3, backoff_in_seconds=1) on predict
predict_retries == 3
predict_backoff_in_seconds == 1

\* IntentClassifier.predict when its first failed_attempts attempts raise
predict(failed_attempts) ==
    retry_with_backoff(predict_retries, predict_backoff_in_seconds,
                       [i \in 1..(predict_retries + 1) |-> i > failed_attempts])

(***************************************************************************)
(* ChatbotService: the handlers                                            *)
(***************************************************************************)
direct_intents == {"consultar_menu", "confirmar_orden"}

\* ChatbotService._format_current_order_summary: [exc, text]
_format_current_order_summary(cs) ==
    LET summary(total) ==
            IF total.exc
            THEN [exc |-> TRUE, text |-> <<>>]
            ELSE [exc |-> FALSE, text |-> <<"order_summary", total.total>>]
    IN IF IsNone(cs.current_order) \/ Get(cs.current_order).items = <<>>
       THEN [exc |-> FALSE, text |-> <<>>]
       ELSE summary(calculate_order_total(Get(cs.current_order).items))

\* ChatbotService._create_response_with_order
_create_response_with_order(cs, text, suggested_actions) ==
    LET with(order_summary) ==
            IF order_summary.exc
            THEN Raise(cs)
            ELSE Return(cs, Response(text \o order_summary.text, suggested_actions,
                                     cs.current_order))
    IN with(_format_current_order_summary(cs))

\* _handle_payment with the state reset before the selection is looked up
_handle_payment_resets_first(cs, text) ==
    LET selected(selected_method) ==
            IF selected_method # None
            THEN Return(ConversationState,
                        Response(<<"payment_success", selected_method>>,
                                 <<"Ver menu", "Hacer nuevo pedido">>, NoneVal))
            ELSE Return(ConversationState,
                        Response(<<"payment_reprompt">>, <<>>, NoneVal))
    IN selected(payment_methods_get(Strip(Lower(text))))

\* _handle_payment looking the text up as it was typed
_handle_payment_exact(cs, text) ==
    LET selected(selected_method) ==
            IF selected_method # None
            THEN Return(ConversationState,
                        Response(<<"payment_success", selected_method>>,
                                 <<"Ver menu", "Hacer nuevo pedido">>, NoneVal))
            ELSE Return(cs, Response(<<"payment_reprompt">>, <<>>, cs.current_order))
    IN selected(payment_methods_get(text))

\* _handle_payment keeping the rejected text as last_input
_handle_payment_keeps_text(cs, text) ==
    LET selected(selected_method) ==
            IF selected_method # None
            THEN Return(ConversationState,
                        Response(<<"payment_success", selected_method>>,
                                 <<"Ver menu", "Hacer nuevo pedido">>, NoneVal))
            ELSE Return([cs EXCEPT !.last_input = Some(text)],
                        Response(<<"payment_reprompt">>, <<>>, cs.current_order))
    IN selected(payment_methods_get(Strip(Lower(text))))

\* ChatbotService._handle_payment
_handle_payment(cs, text) ==
    LET selected(selected_method) ==
            IF selected_method # None
            THEN Return(ConversationState,
                        Response(<<"payment_success", selected_method>>,
                                 <<"Ver menu", "Hacer nuevo pedido">>, NoneVal))
            ELSE Return(cs, Response(<<"payment_reprompt">>, <<>>, cs.current_order))
    IN selected(payment_methods_get(Strip(Lower(text))))

\* ChatbotService._format_order_summary: TRUE when it raises.  Each item is
\* priced and then asked for its calories.
_format_order_summary_raises(o) ==
    \/ \E i \in 1..Len(o.items) :
          calculate_item_price(o.items[i]).exc \/ get_calories_raises
    \/ calculate_order_total(o.items).exc

\* _handle_order_confirmation setting pending_payment once the summary is
\* formatted
_handle_order_confirmation_flag_last(cs) ==
    IF Truthy(cs.current_order)
    THEN IF _format_order_summary_raises(Get(cs.current_order))
         THEN Raise(cs)
         ELSE Return([cs EXCEPT !.pending_payment = TRUE],
                     Response(<<"order_confirmed", "payment_options">>,
                              <<>>, cs.current_order))
    ELSE Return(cs, Response(<<"no_active_order">>,
                             <<"Ver menu", "Hacer un pedido">>, NoneVal))

\* _handle_order_confirmation handing the order over and starting afresh,
\* as _handle_confirmation does
_handle_order_confirmation_takes_order(cs) ==
    IF Truthy(cs.current_order)
    THEN IF _format_order_summary_raises(Get(cs.current_order))
         THEN Raise([ConversationState EXCEPT !.pending_payment = TRUE])
         ELSE Return([ConversationState EXCEPT !.pending_payment = TRUE],
                     Response(<<"order_confirmed", "payment_options">>,
                              <<>>, cs.current_order))
    ELSE Return(cs, Response(<<"no_active_order">>,
                             <<"Ver menu", "Hacer un pedido">>, NoneVal))

\* ChatbotService._handle_order_confirmation
_handle_order_confirmation(cs) ==
    IF Truthy(cs.current_order)
    THEN LET cs1 == [cs EXCEPT !.pending_payment = TRUE]
         IN IF _format_order_summary_raises(Get(cs.current_order))
            THEN Raise(cs1)
            ELSE Return(cs1, Response(<<"order_confirmed", "payment_options">>,
                                      <<>>, cs.current_order))
    ELSE Return(cs, Response(<<"no_active_order">>,
                             <<"Ver menu", "Hacer un pedido">>, NoneVal))

\* _handle_order_cancellation dropping the order only
_handle_order_cancellation_drops_order(cs) ==
    Return([cs EXCEPT !.current_order = NoneVal],
           Response(<<"order_cancelled">>, <<"Ver menu", "Ordenar otra cosa">>, NoneVal))

\* ChatbotService._handle_order_cancellation
_handle_order_cancellation(cs) ==
    Return(ConversationState,
           Response(<<"order_cancelled">>, <<"Ver menu", "Ordenar otra cosa">>, NoneVal))

\* ChatbotService._handle_unknown_intent
_handle_unknown_intent(cs) ==
    _create_response_with_order(cs, <<"unknown_intent">>,
                                <<"Ver menu", "Hacer pedido", "Ver precios">>)

\* _handle_menu_intent setting mode = QUERY, as the branch of
\* process_message for a stored consultar_menu does
_handle_menu_intent_sets_mode(cs, menu_raises) ==
    IF menu_raises
    THEN Raise([cs EXCEPT !.mode = "query"])
    ELSE _create_response_with_order(
             [cs EXCEPT !.mode = "query"], <<"menu">>,
             <<"Ordenar algo", "Consultar precios", "Ver bebidas", "Ver alimentos">>)

\* ChatbotService._handle_menu_intent; menu_raises: get_menu raises
_handle_menu_intent(cs, menu_raises) ==
    IF menu_raises
    THEN Raise(cs)
    ELSE _create_response_with_order(
             cs, <<"menu">>,
             <<"Ordenar algo", "Consultar precios", "Ver bebidas", "Ver alimentos">>)

OrderError ==
    Response(<<"order_error">>, <<"Ver menu", "Empezar de nuevo">>, NoneVal)

\* the body of the try block of ChatbotService._handle_order_intent
_handle_order_intent_try(cs, entities, menu_raises) ==
    LET added(item, order_item, price_breakdown, cs1) ==
            IF price_breakdown.exc
            THEN Raise(cs)
            ELSE Return(cs1,
                        Response(<<"added_beverage", item.name, order_item.size,
                                   price_breakdown.total>>,
                                 <<"Ver personalizaciones", "Confirmar orden",
                                   "Agregar mas">>,
                                 cs1.current_order))
        priced(item, order_item) ==
            added(item, order_item, calculate_item_price(order_item),
                  [cs EXCEPT !.current_order =
                      Some(add_item(IF Truthy(cs.current_order)
                                    THEN Get(cs.current_order) ELSE Order,
                                    order_item))])
        sized(item) ==
            IF entities.tamano = None
            THEN IF DOMAIN item.prices # {} /\ get_calories_raises
                 THEN Raise(cs)
                 ELSE Return(cs, Response(<<"size_prompt", item.name>>,
                                          item.sizes, cs.current_order))
            ELSE priced(item, OrderItem(item, entities.tamano,
                                        entities.personalizaciones, 1))
        searched(found) ==
            IF ~IsNone(found)
            THEN sized(Get(found))
            ELSE Return(cs, Response(<<"ask_beverage">>,
                                     <<"Ver menu", "Ver bebidas populares">>, NoneVal))
    IN IF entities.bebida # None
       THEN IF menu_raises THEN Raise(cs) ELSE searched(search_item(entities.bebida))
       ELSE Return(cs, Response(<<"ask_beverage">>,
                                <<"Ver menu", "Ver bebidas populares">>, NoneVal))

\* ChatbotService._handle_order_intent: try ... except Exception
_handle_order_intent(cs, entities, menu_raises) ==
    LET except(r) == IF r.exc THEN Return(r.cs, OrderError) ELSE r
    IN except(_handle_order_intent_try(cs, entities, menu_raises))

\* the body of the try block of ChatbotService._handle_food_order_intent
_handle_food_order_intent_try(cs, entities, menu_raises) ==
    LET added(item, cs2) ==
            Return(cs2, Response(<<"added_food", item.name>>,
                                 <<"Confirmar orden", "Agregar mas", "Ver orden actual">>,
                                 cs2.current_order))
        searched(cs1, found) ==
            IF ~IsNone(found)
            THEN added(Get(found),
                       [cs1 EXCEPT !.current_order =
                           Some(add_item(Get(cs1.current_order),
                                         OrderItem(Get(found), "individual",
                                                   entities.personalizaciones, 1)))])
            ELSE Return(cs1, Response(<<"food_not_found">>,
                                      <<"Ver menu", "Ver comidas disponibles">>,
                                      NoneVal))
        ordered(cs1) ==
            IF alimento_raises
            THEN Raise(cs1)
            ELSE IF entities.alimento # None
                 THEN IF menu_raises
                      THEN Raise(cs1)
                      ELSE searched(cs1, search_food_item(entities.alimento))
                 ELSE Return(cs1, Response(<<"ask_food">>,
                                           <<"Ver menu de comidas",
                                             "Ver opciones populares">>,
                                           NoneVal))
    IN ordered(IF ~Truthy(cs.current_order)
               THEN [cs EXCEPT !.current_order = Some(Order)] ELSE cs)

\* ChatbotService._handle_food_order_intent: try ... except Exception
_handle_food_order_intent(cs, entities, menu_raises) ==
    LET except(r) == IF r.exc THEN Return(r.cs, OrderError) ELSE r
    IN except(_handle_food_order_intent_try(cs, entities, menu_raises))

\* ChatbotService._handle_purchase_intent
_handle_purchase_intent(cs, intent, entities, menu_raises) ==
    IF intent = "ordenar_bebida"
    THEN _handle_order_intent(cs, entities, menu_raises)
    ELSE _handle_food_order_intent(cs, entities, menu_raises)

\* _handle_price_query creating the order when there is none, as
\* _handle_food_order_intent does
_handle_price_query_creates_order(cs0, entities, menu_raises) ==
    LET cs == IF Truthy(cs0.current_order)
              THEN cs0 ELSE [cs0 EXCEPT !.current_order = Some(Order)]
        listed(product) ==
            IF IsNone(product)
            THEN IF alimento_raises
                 THEN Raise(cs)
                 ELSE _create_response_with_order(
                          cs, <<"ask_price_product">>,
                          <<"Ver bebidas disponibles", "Ver alimentos disponibles",
                            "Ver menu completo">>)
            ELSE IF DOMAIN Get(product).prices # {} /\ get_calories_raises
                 THEN Raise(cs)
                 ELSE _create_response_with_order(
                          cs, <<"price_listing", Get(product).name>>,
                          <<"Ordenar", "Consultar otro precio", "Ver menu completo">>)
    IN IF entities.bebida # None /\ menu_raises
       THEN Raise(cs)
       ELSE listed(IF entities.bebida # None
                   THEN search_item(entities.bebida) ELSE NoneVal)

\* ChatbotService._handle_price_query
_handle_price_query(cs, entities, menu_raises) ==
    LET listed(product) ==
            IF IsNone(product)
            THEN IF alimento_raises
                 THEN Raise(cs)
                 ELSE _create_response_with_order(
                          cs, <<"ask_price_product">>,
                          <<"Ver bebidas disponibles", "Ver alimentos disponibles",
                            "Ver menu completo">>)
            ELSE IF DOMAIN Get(product).prices # {} /\ get_calories_raises
                 THEN Raise(cs)
                 ELSE _create_response_with_order(
                          cs, <<"price_listing", Get(product).name>>,
                          <<"Ordenar", "Consultar otro precio", "Ver menu completo">>)
    IN IF entities.bebida # None /\ menu_raises
       THEN Raise(cs)
       ELSE listed(IF entities.bebida # None
                   THEN search_item(entities.bebida) ELSE NoneVal)

\* ChatbotService.handle_intent: handler(intent, entities).  Calling
\* _handle_price_intent or _handle_unknown_intent with the two positional
\* arguments raises TypeError: each takes one.
handle_intent(cs, intent, entities, menu_raises) ==
    IF intent \in {"ordenar_bebida", "ordenar_alimento"}
    THEN _handle_purchase_intent(cs, intent, entities, menu_raises)
    ELSE IF intent = "preguntar_precio" THEN Raise(cs)
    ELSE IF intent = "consultar_menu" THEN _handle_menu_intent(cs, menu_raises)
    ELSE IF intent = "confirmar_orden" THEN _handle_order_confirmation(cs)
    ELSE IF intent = "cancelar_orden" THEN _handle_order_cancellation(cs)
    ELSE Raise(cs)

\* sub in text, on strings
Contains(text, sub) ==
    \E i \in 1..(Len(text) - Len(sub) + 1) : SubSeq(text, i, i + Len(sub) - 1) = sub

\* the confirmations list of _is_confirmation
confirmations ==
    << <<"s", "i">>, <<"s", "í">>,
       <<"c", "o", "n", "f", "i", "r", "m", "a", "r">>,
       <<"c", "o", "n", "f", "i", "r", "m", "o">>,
       <<"o", "k">>, <<"d", "a", "l", "e">>, <<"l", "i", "s", "t", "o">> >>

\* ChatbotService._is_confirmation
_is_confirmation(text) ==
    \E i \in 1..Len(confirmations) : Contains(Lower(text), confirmations[i])

ConfirmationError ==
    Response(<<"confirmation_error">>, <<"Ver menu", "Empezar de nuevo">>, NoneVal)

\* the body of the try block of ChatbotService._handle_intent_confirmation;
\* the entities are those stored with the predicted intent
_handle_intent_confirmation_try(cs, text, menu_raises) ==
    IF _is_confirmation(text)
    THEN handle_intent([cs EXCEPT !.pending_intent_confirmation = FALSE,
                                  !.current_intent = cs.predicted_intent],
                       cs.predicted_intent, Get(cs.last_entities), menu_raises)
    ELSE Return([cs EXCEPT !.pending_intent_confirmation = FALSE],
                Response(<<"rephrase">>,
                         <<"Ver menu", "Ver opciones disponibles">>, NoneVal))

\* ChatbotService._handle_intent_confirmation: try ... except Exception
_handle_intent_confirmation(cs, text, menu_raises) ==
    LET except(r) == IF r.exc THEN Return(r.cs, ConfirmationError) ELSE r
    IN except(_handle_intent_confirmation_try(cs, text, menu_raises))

\* the body of the try block of ChatbotService.process_message
process_message_try(cs, text, entities, intent, fail, failed_attempts) ==
    LET dispatched(cs1) ==
            IF intent \in {"ordenar_bebida", "ordenar_alimento"}
            THEN _handle_purchase_intent([cs1 EXCEPT !.mode = "purchase"],
                                         intent, entities, fail = "menu")
            ELSE IF intent = "consultar_menu"
            THEN _handle_menu_intent([cs1 EXCEPT !.mode = "query"], fail = "menu")
            ELSE IF intent = "preguntar_precio"
            THEN _handle_price_query([cs1 EXCEPT !.mode = "query"], entities,
                                     fail = "menu")
            ELSE _handle_unknown_intent(cs1)
    IN IF cs.pending_payment
       THEN _handle_payment(cs, text)
       ELSE IF fail = "extractor" \/ predict(failed_attempts).exc
       THEN Raise(cs)
       ELSE IF intent \in direct_intents
       THEN handle_intent(cs, intent, entities, fail = "menu")
       ELSE dispatched([cs EXCEPT !.last_entities = Some(entities),
                                  !.last_input = Some(text),
                                  !.predicted_intent = intent])

ProcessError == <<"process_error">>

\* process_message without its except clause
process_message_no_except(cs, text, entities, intent, fail, failed_attempts) ==
    process_message_try(cs, text, entities, intent, fail, failed_attempts)

\* process_message starting over with a fresh state when the turn fails
process_message_resets_on_error(cs, text, entities, intent, fail, failed_attempts) ==
    LET except(r) ==
            IF r.exc
            THEN _create_response_with_order(ConversationState, ProcessError,
                                             <<"Ver menu", "Empezar de nuevo">>)
            ELSE r
    IN except(process_message_try(cs, text, entities, intent, fail, failed_attempts))

\* ChatbotService.process_message: try ... except Exception.  exc is TRUE
\* when the except clause raises in its turn, so that the call raises.
process_message(cs, text, entities, intent, fail, failed_attempts) ==
    LET except(r) ==
            IF r.exc
            THEN _create_response_with_order(r.cs, ProcessError,
                                             <<"Ver menu", "Empezar de nuevo">>)
            ELSE r
    IN except(process_message_try(cs, text, entities, intent, fail, failed_attempts))

\* process_message calling process_input and predict before it looks at
\* pending_payment
invocations_before_payment(cs, fail, failed_attempts) ==
    IF fail = "extractor"
    THEN [process_input |-> 1, predict |-> 0]
    ELSE [process_input |-> 1, predict |-> predict(failed_attempts).attempts]

\* the invocations one process_message call makes of process_input (the
\* entity extractor) and of the operation predict wraps (the classifier)
invocations(cs, fail, failed_attempts) ==
    IF cs.pending_payment
    THEN [process_input |-> 0, predict |-> 0]
    ELSE IF fail = "extractor"
    THEN [process_input |-> 1, predict |-> 0]
    ELSE [process_input |-> 1, predict |-> predict(failed_attempts).attempts]

(***************************************************************************)
(* Inputs                                                                  *)
(***************************************************************************)
LecheAlmendra == <<"leche", ":", "almendra">>
Descafeinado == <<"descafeinado">>

Message(text, bebida, tamano, personalizaciones, alimento) ==
    [text |-> text, bebida |-> bebida, tamano |-> tamano,
     personalizaciones |-> personalizaciones, alimento |-> alimento]

\* The messages of a turn: the text, and what it names (a beverage, a
\* size, customizations as pairs of a type and an option of the menu, a
\* food).  The texts are "hola", "2", " TARJETA ", "latte", "latte grande",
\* "latte grande almendra", "latte venti" (a size the latte does not
\* have), "muffin" and "mocha" (a beverage and a food the menu does not
\* have).
Messages ==
    {Message(<<"h", "o", "l", "a">>, None, None, <<>>, None),
     Message(<<"2">>, None, None, <<>>, None),
     Message(<<" ", "T", "A", "R", "J", "E", "T", "A", " ">>, None, None, <<>>, None),
     Message(<<"l", "a", "t", "t", "e">>, "latte", None, <<>>, None),
     Message(<<"l", "a", "t", "t", "e", " ", "g", "r", "a", "n", "d", "e">>,
             "latte", "grande", <<>>, None),
     Message(<<"l", "a", "t", "t", "e", " ", "g", "r", "a", "n", "d", "e", " ",
               "a", "l", "m", "e", "n", "d", "r", "a">>,
             "latte", "grande", << <<"leche", "almendra">> >>, None),
     Message(<<"l", "a", "t", "t", "e", " ", "v", "e", "n", "t", "i">>,
             "latte", "venti", <<>>, None),
     Message(<<"m", "u", "f", "f", "i", "n">>, None, None, <<>>, "muffin"),
     Message(<<"m", "o", "c", "h", "a">>, "mocha", None, <<>>, "scone")}

\* the labels the classifier predicts; "saludo" has no handler
Intents ==
    {"ordenar_bebida", "ordenar_alimento", "preguntar_precio", "consultar_menu",
     "confirmar_orden", "cancelar_orden", "saludo"}

OrderLen(current_order) ==
    IF IsNone(current_order) THEN 0 ELSE Len(Get(current_order).items)

\* the two conversations
Sessions == {"a", "b"}

\* the ConversationState objects the services hold
ConversationStates == Sessions \cup {"shared"}

\* a service of every session handed one ConversationState object
ChatbotService_shared_state(session) == [conversation_state |-> "shared"]

\* ChatbotService(...) for a session: __init__ makes a ConversationState of
\* its own; the repositories, the processor and the classifier it is handed
\* are changed by no turn
ChatbotService(session) == [conversation_state |-> session]

\* the services of the two conversations, the ConversationState objects,
\* and for each conversation the state its turns give when it is served
\* alone
Services ==
    [service |-> [s \in Sessions |-> ChatbotService(s)],
     objects |-> [o \in ConversationStates |-> ConversationState],
     alone |-> [s \in Sessions |-> ConversationState],
     served |-> None]

(***************************************************************************)
(* The service, turn by turn                                               *)
(***************************************************************************)
Init ==
    /\ conversation_state = ConversationState
    /\ response = NoResponse
    /\ raised = FALSE
    /\ last = [op |-> "init", text |-> <<>>, intent |-> None, fail |-> "none",
               twice |-> FALSE]
    /\ calls = [process_input |-> 0, predict |-> 0]
    /\ order = Order
    /\ order_raised = FALSE
    /\ pricing = NoneVal
    /\ retried = NoWrapperCall
    /\ sessions = Services

Turn(message, intent, fail, failed_attempts, recorded) ==
    \E r \in {process_message(conversation_state, message.text,
                              extract_entities(message), intent, fail,
                              failed_attempts)} :
       /\ OrderLen(r.cs.current_order) <= MaxItems
       /\ conversation_state' = r.cs
       /\ response' = r.resp
       /\ raised' = r.exc
       /\ last' = recorded
       /\ calls' = invocations(conversation_state, fail, failed_attempts)
       /\ UNCHANGED <<order, order_raised, pricing, retried, sessions>>

\* the message of a turn that reads nothing of its message
AnyMessage == Message(<<"h", "o", "l", "a">>, None, None, <<>>, None)

\* what is kept of a call: the operation, the text (of a payment turn), the
\* intent, what failed, and whether the call is a handle_intent call that
\* follows a handle_intent call for the same intent
Recorded(op, text, intent, fail) ==
    [op |-> op, text |-> text, intent |-> intent, fail |-> fail, twice |-> FALSE]

\* a turn taken while a payment is pending: only the text is read
PaymentTurn ==
    /\ conversation_state.pending_payment
    /\ \E message \in Messages :
          Turn(message, None, "none", 0,
               Recorded("payment", message.text, None, "none"))

\* a turn in which process_input raises, or every attempt of predict
\* raises: nothing of the message is kept
FailedTurn ==
    /\ ~conversation_state.pending_payment
    /\ \/ Turn(AnyMessage, None, "none", predict_retries + 1,
               Recorded("turn", <<>>, None, "classifier"))
       \/ Turn(AnyMessage, None, "extractor", 0,
               Recorded("turn", <<>>, None, "extractor"))

\* the menu repository is called only by the handlers of these intents
CallsMenu == {"ordenar_bebida", "ordenar_alimento", "preguntar_precio", "consultar_menu"}

\* the numbers of failing attempts of a predict call that returns: its
\* first attempt returns, or only its last one does
Retried == {0, predict_retries}

\* a turn that is classified and dispatched at once: the handler of a
\* direct intent reads neither the text nor the entities
DirectTurn ==
    /\ ~conversation_state.pending_payment
    /\ \E intent \in direct_intents, failed_attempts \in Retried :
          \E fail \in (IF intent \in CallsMenu THEN {"none", "menu"} ELSE {"none"}) :
             Turn(AnyMessage, intent, fail, failed_attempts,
                  Recorded("turn", <<>>, intent, fail))

\* the messages of the classified turns: those that select no payment
\* method
Utterances ==
    {m \in Messages : \A p \in payment_methods : p[1] # Strip(Lower(m.text))}

\* a turn that is classified, stored in the conversation state (text,
\* entities and intent: last_input, last_entities, predicted_intent) and
\* dispatched.  A turn that never calls the menu repository cannot tell
\* whether it would fail.  The first attempt of predict returns: its
\* retries are those of the direct and of the failed turns.
ClassifiedTurn ==
    /\ ~conversation_state.pending_payment
    /\ \E message \in Utterances, intent \in Intents \ direct_intents :
          \E fail \in (IF intent \in CallsMenu THEN {"none", "menu"} ELSE {"none"}) :
             Turn(message, intent, fail, 0, Recorded("turn", <<>>, intent, fail))

Next == PaymentTurn \/ FailedTurn \/ DirectTurn \/ ClassifiedTurn

Spec == Init /\ [][Next]_vars

(***************************************************************************)
(* The service driven by handle_intent calls: its client dispatches the    *)
(* intents itself, and answers a payment prompt through process_message    *)
(***************************************************************************)
\* a handle_intent call: the intent is dispatched as it is given
HandleIntent ==
    \E message \in Messages, intent \in Intents :
       \E fail \in (IF intent \in CallsMenu THEN {"none", "menu"} ELSE {"none"}) :
          \E r \in {handle_intent(conversation_state, intent,
                                  extract_entities(message), fail = "menu")} :
             /\ OrderLen(r.cs.current_order) <= MaxItems
             /\ conversation_state' = r.cs
             /\ response' = r.resp
             /\ raised' = r.exc
             /\ last' = [op |-> "handle", text |-> <<>>, intent |-> intent,
                         fail |-> fail,
                         twice |-> (last.op = "handle" /\ last.intent = intent)]
             /\ calls' = [process_input |-> 0, predict |-> 0]
             /\ UNCHANGED <<order, order_raised, pricing, retried, sessions>>

NextHandle == HandleIntent \/ PaymentTurn

SpecHandle == Init /\ [][NextHandle]_vars

(***************************************************************************)
(* The intent-confirmation sub-flow: an intent, its entities and its text   *)
(* are stored and pending_intent_confirmation is set; the reply is given to *)
(* _handle_intent_confirmation, and process_message takes turns             *)
(***************************************************************************)
\* the replies: "Si", "no", "casi", "ok"
Replies == {<<"S", "i">>, <<"n", "o">>, <<"c", "a", "s", "i">>, <<"o", "k">>}

\* the conversation state awaiting the confirmation of an intent
Awaiting(message, intent) ==
    [ConversationState EXCEPT !.predicted_intent = intent,
                              !.last_entities = Some(extract_entities(message)),
                              !.last_input = Some(message.text),
                              !.pending_intent_confirmation = TRUE]

InitConfirm ==
    /\ conversation_state \in {Awaiting(m, i) : m \in Utterances, i \in Intents}
    /\ response = NoResponse
    /\ raised = FALSE
    /\ last = [op |-> "init", text |-> <<>>, intent |-> None, fail |-> "none",
               twice |-> FALSE]
    /\ calls = [process_input |-> 0, predict |-> 0]
    /\ order = Order
    /\ order_raised = FALSE
    /\ pricing = NoneVal
    /\ retried = NoWrapperCall
    /\ sessions = Services

\* a _handle_intent_confirmation call with a reply
ConfirmIntent ==
    \E text \in Replies :
       \E fail \in (IF _is_confirmation(text)
                        /\ conversation_state.predicted_intent \in CallsMenu
                     THEN {"none", "menu"} ELSE {"none"}) :
          \E r \in {_handle_intent_confirmation(conversation_state, text,
                                                fail = "menu")} :
             /\ OrderLen(r.cs.current_order) <= MaxItems
             /\ conversation_state' = r.cs
             /\ response' = r.resp
             /\ raised' = r.exc
             /\ last' = Recorded("confirm", text,
                                 conversation_state.predicted_intent, fail)
             /\ calls' = [process_input |-> 0, predict |-> 0]
             /\ UNCHANGED <<order, order_raised, pricing, retried, sessions>>

NextConfirm == ConfirmIntent \/ DirectTurn \/ FailedTurn \/ PaymentTurn

SpecConfirm == InitConfirm /\ [][NextConfirm]_vars

(***************************************************************************)
(* A stand-alone Order under add_item and remove_item                      *)
(***************************************************************************)
MenuItems == {BeverageItem(BeverageData[1]), FoodItem(FoodData[1])}

OrderItems ==
    {OrderItem(m, s, c, q) :
        m \in MenuItems, s \in {"grande", "individual"},
        c \in {<<>>, <<LecheAlmendra>>}, q \in 1..MaxQuantity}

AddItem ==
    /\ Len(order.items) < MaxItems
    /\ \E item \in OrderItems :
          /\ order' = add_item(order, item)
          /\ order_raised' = FALSE
    /\ UNCHANGED <<conversation_state, response, raised, last, calls, pricing, retried, sessions>>

RemoveItem ==
    /\ \E item \in OrderItems :
          IF RemoveRaises(order, item)
          THEN order' = order /\ order_raised' = TRUE
          ELSE order' = remove_item(order, item) /\ order_raised' = FALSE
    /\ UNCHANGED <<conversation_state, response, raised, last, calls, pricing, retried, sessions>>

NextOrder == AddItem \/ RemoveItem

SpecOrder == Init /\ [][NextOrder]_vars

(***************************************************************************)
(* PriceCalculator.calculate_item_price on stand-alone items               *)
(***************************************************************************)
\* customization tokens: two of the surcharge table, one with no ":", one
\* with two ":", one of an unknown category and one of an unknown option
ShotsDoble == <<"shots", ":", "doble">>
DosSeparadores == <<"leche", ":", "almendra", ":", "extra">>
HieloExtra == <<"hielo", ":", "extra">>
LecheEntera == <<"leche", ":", "entera">>

Tokens ==
    {LecheAlmendra, ShotsDoble, Descafeinado, DosSeparadores, HieloExtra, LecheEntera}

\* the lists of at most n tokens
RECURSIVE TokenLists(_)
TokenLists(n) ==
    IF n = 0 THEN {<<>>}
    ELSE TokenLists(n - 1)
            \cup {Append(l, t) : l \in {x \in TokenLists(n - 1) : Len(x) = n - 1},
                                 t \in Tokens}

\* the items handed to the calculator: "venti" is a size neither menu item
\* has
PricedItems ==
    {OrderItem(m, s, c, q) :
        m \in MenuItems, s \in {"grande", "individual", "venti"},
        c \in TokenLists(MaxTokens), q \in 1..MaxQuantity}

CalculateItemPrice ==
    /\ \E item \in PricedItems :
          pricing' = Some([item |-> item, result |-> calculate_item_price(item)])
    /\ UNCHANGED <<conversation_state, response, raised, last, calls, order,
                   order_raised, retried, sessions>>

NextPrice == CalculateItemPrice

SpecPrice == Init /\ [][NextPrice]_vars

(***************************************************************************)
(* One PriceCalculator pricing items and orders, call after call           *)
(***************************************************************************)
\* the calculator the next call is made on
Calculator == IF IsNone(pricing) THEN PriceCalculator ELSE Get(pricing).self

\* the items of an order: a latte grande, plain or with almond milk, in
\* each quantity, and one muffin
KeptItems ==
    {OrderItem(BeverageItem(BeverageData[1]), "grande", c, q) :
        c \in {<<>>, <<LecheAlmendra>>}, q \in 1..MaxQuantity}
       \cup {OrderItem(FoodItem(FoodData[1]), "individual", <<>>, 1)}

\* the items priced one by one: either menu item in a size it has or has
\* not, with no token or with one
CalculatorItems ==
    {OrderItem(m, s, c, q) :
        m \in MenuItems, s \in {"grande", "individual", "venti"},
        c \in {<<>>} \cup {<<t>> : t \in Tokens}, q \in 1..MaxQuantity}

RECURSIVE ItemLists(_)
\* the lists of at most n items of an order, one with a token that has no
\* ":" among them
ItemLists(n) ==
    IF n = 0 THEN {<<>>}
    ELSE ItemLists(n - 1)
            \cup {Append(l, i) :
                     l \in {x \in ItemLists(n - 1) : Len(x) = n - 1},
                     i \in KeptItems
                            \cup {OrderItem(BeverageItem(BeverageData[1]),
                                            "grande", <<Descafeinado>>, 1)}}

\* what is kept of a call: the method, its argument before and after the
\* call, the calculator after the call, and what the call returned
Priced(op, before, after, self, result) ==
    [op |-> op, before |-> before, after |-> after, self |-> self,
     result |-> result]

PriceItem ==
    /\ \E item \in CalculatorItems :
          \E c \in {calculate_item_price_call(Calculator, item)} :
             pricing' = Some(Priced("calculate_item_price", item, c.item, c.self,
                                    c.result))
    /\ UNCHANGED <<conversation_state, response, raised, last, calls, order,
                   order_raised, retried, sessions>>

PriceOrder ==
    /\ \E order_items \in ItemLists(MaxItems) :
          \E c \in {calculate_order_total_call(Calculator, order_items)} :
             pricing' = Some(Priced("calculate_order_total", order_items,
                                    c.order_items, c.self, c.result))
    /\ UNCHANGED <<conversation_state, response, raised, last, calls, order,
                   order_raised, retried, sessions>>

NextCalculator == PriceItem \/ PriceOrder

SpecCalculator == Init /\ [][NextCalculator]_vars

(***************************************************************************)
(* A call through retry_with_backoff, one attempt after another            *)
(***************************************************************************)
CallWrapper ==
    /\ retried.status # "running"
    /\ \E retries \in 0..MaxRetries, backoff_in_seconds \in 1..MaxBackoff :
          retried' = wrapper(retries, backoff_in_seconds)
    /\ UNCHANGED <<conversation_state, response, raised, last, calls, order,
                   order_raised, pricing, sessions>>

\* an attempt in which the operation returns
AttemptReturns ==
    /\ retried.status = "running"
    /\ retried' = wrapper_round(retried, TRUE)
    /\ UNCHANGED <<conversation_state, response, raised, last, calls, order,
                   order_raised, pricing, sessions>>

\* an attempt in which the operation raises
AttemptRaises ==
    /\ retried.status = "running"
    /\ retried' = wrapper_round(retried, FALSE)
    /\ UNCHANGED <<conversation_state, response, raised, last, calls, order,
                   order_raised, pricing, sessions>>

Attempt == AttemptReturns \/ AttemptRaises

NextRetry == CallWrapper \/ AttemptReturns \/ AttemptRaises

\* the operation and time.sleep return, so a running loop makes its next
\* round
SpecRetry == Init /\ [][NextRetry]_vars /\ WF_vars(Attempt)

(***************************************************************************)
(* Two conversations, each with its service, taking turns in any order     *)
(***************************************************************************)
\* the state of the conversation of a session
StateOf(ss, session) == ss.objects[ss.service[session].conversation_state]

\* the messages and the intents of the turns: "latte grande", "muffin" and
\* "2"; ordering, confirming
SessionMessages ==
    {m \in Messages :
        m.text \in {<<"l", "a", "t", "t", "e", " ", "g", "r", "a", "n", "d", "e">>,
                    <<"m", "u", "f", "f", "i", "n">>, <<"2">>}}

SessionIntents == {"ordenar_bebida", "ordenar_alimento", "confirmar_orden"}

SessionTurn ==
    /\ \E s \in Sessions, message \in SessionMessages, intent \in SessionIntents :
          \E r \in {process_message(StateOf(sessions, s), message.text,
                                     extract_entities(message), intent, "none", 0)},
             a \in {process_message(sessions.alone[s], message.text,
                                     extract_entities(message), intent, "none", 0)} :
             /\ OrderLen(r.cs.current_order) <= MaxItems
             /\ OrderLen(a.cs.current_order) <= MaxItems
             /\ sessions' =
                   [sessions EXCEPT
                      !.objects[sessions.service[s].conversation_state] = r.cs,
                      !.alone[s] = a.cs,
                      !.served = s]
    /\ UNCHANGED <<conversation_state, response, raised, last, calls, order,
                   order_raised, pricing, retried>>

NextSessions == SessionTurn

SpecSessions == Init /\ [][NextSessions]_vars

(***************************************************************************)
(* An Order under add_item and remove_item calls whose argument is kept    *)
(***************************************************************************)
\* what is kept of a call on the order: the method and its argument
Call(op, item) ==
    [op |-> op, text |-> <<>>, intent |-> None, fail |-> "none", twice |-> FALSE,
     item |-> item]

AddKept ==
    /\ Len(order.items) < MaxItems
    /\ \E item \in KeptItems :
          /\ order' = add_item(order, item)
          /\ order_raised' = FALSE
          /\ last' = Call("add_item", item)
    /\ UNCHANGED <<conversation_state, response, raised, calls, pricing, retried, sessions>>

RemoveKept ==
    /\ \E item \in KeptItems :
          \E r \in {remove_item_or_raise(order, item)} :
             /\ order' = r.order
             /\ order_raised' = r.exc
             /\ last' = Call("remove_item", item)
    /\ UNCHANGED <<conversation_state, response, raised, calls, pricing, retried, sessions>>

NextOrderCalls == AddKept \/ RemoveKept

SpecOrderCalls == Init /\ [][NextOrderCalls]_vars

(***************************************************************************)
(* Properties                                                              *)
(***************************************************************************)
cs == conversation_state

\* the text, lower-cased and trimmed, is a key of payment_methods
IsPaymentSelection(text) == \E p \in payment_methods : p[1] = Strip(Lower(text))

\* the items of an Optional[Order]; none when there is no order
ItemsOf(current_order) ==
    IF IsNone(current_order) THEN <<>> ELSE Get(current_order).items

\* the message with a given text
MessageOf(text) == CHOOSE m \in Messages : m.text = text

ClassifiedAs(l, intent) == l.op = "turn" /\ l.intent = intent /\ l.fail = "none"

\* C1: after every add_item / remove_item, order.total equals
\* calculate_order_total(order.items), the sum of the items' price
\* breakdown totals.
C1_TotalIsCalculatorTotal ==
    /\ ~calculate_order_total(order.items).exc
    /\ order.total = calculate_order_total(order.items).total

\* C2: once a payment is pending, a step clears pending_payment only if it
\* is a payment turn whose text is a valid payment selection.
C2_OnlySelectionClearsPayment ==
    [][(cs.pending_payment /\ ~cs'.pending_payment)
          => (last'.op = "payment" /\ IsPaymentSelection(last'.text))]_vars

C2_Witness ==
    /\ cs.pending_payment
    /\ last.op = "payment"
    /\ ~IsPaymentSelection(last.text)
    /\ MessageOf(last.text).bebida = "latte"

\* C3: a turn classified confirmar_orden, taken with at least one item in
\* the order, ends with pending_payment = true.
C3_ConfirmSetsPendingPayment ==
    [][(last'.op = "turn" /\ last'.intent = "confirmar_orden"
        /\ ~cs.pending_payment /\ OrderLen(cs.current_order) >= 1)
          => cs'.pending_payment]_vars

C3_Witness ==
    /\ last.op = "turn" /\ last.intent = "confirmar_orden"
    /\ OrderLen(cs.current_order) >= 1
    /\ cs.pending_payment

\* C4: a confirmar_orden turn taken with an empty order (absent, or with
\* zero items) does not set pending_payment and answers with the prompt
\* to order something.
C4_EmptyOrderNotConfirmed ==
    [][(last'.op = "turn" /\ last'.intent = "confirmar_orden"
        /\ ~cs.pending_payment /\ OrderLen(cs.current_order) = 0)
          => (~cs'.pending_payment /\ response'.text = <<"no_active_order">>)]_vars

\* C5: while a payment is pending, a text that is a payment selection
\* resets the conversation state to a fresh instance and returns the
\* success Response with no order; the turn after it is classified.
C5_SelectionResetsState ==
    [][/\ (cs.pending_payment /\ last'.op = "payment" /\ IsPaymentSelection(last'.text))
            => /\ cs' = ConversationState
               /\ response'.text[1] = "payment_success"
               /\ response'.order = NoneVal
               /\ ~raised'
       /\ (last.op = "payment" /\ IsPaymentSelection(last.text))
            => last'.op = "turn"]_vars

C5_Witness ==
    /\ last.op = "payment"
    /\ last.text = <<" ", "T", "A", "R", "J", "E", "T", "A", " ">>
    /\ cs = ConversationState
    /\ response = Response(<<"payment_success", "Tarjeta">>,
                           <<"Ver menu", "Hacer nuevo pedido">>, NoneVal)

\* C6: while a payment is pending, a text that is no payment selection
\* returns the re-prompt and leaves every field of the conversation state
\* as it was.
C6_RejectedSelectionKeepsState ==
    [][(cs.pending_payment /\ last'.op = "payment" /\ ~IsPaymentSelection(last'.text))
          => /\ cs' = cs
             /\ response' = Response(<<"payment_reprompt">>, <<>>, cs.current_order)
             /\ ~raised']_vars

C6_Witness ==
    /\ last.op = "payment"
    /\ ~IsPaymentSelection(last.text)
    /\ response.text = <<"payment_reprompt">>
    /\ OrderLen(cs.current_order) = 2
    /\ ~IsNone(cs.last_entities)

\* C7: no process_message call raises: every call returns a Response.
C7_NeverRaises == ~raised

C7_Witness ==
    /\ last.fail \in {"extractor", "classifier"}
    /\ response.text[1] = "process_error"
    /\ \E i \in 1..OrderLen(cs.current_order) :
          Get(cs.current_order).items[i].customizations # <<>>
    /\ ~raised

\* C8: an ordenar_bebida turn naming a beverage of the menu and no size
\* returns the size prompt for it, with its sizes as suggested actions, and
\* leaves current_order as it was.
C8_NoSizeGivesSizePrompt ==
    [][(ClassifiedAs(last', "ordenar_bebida")
        /\ Get(cs'.last_entities).bebida # None
        /\ ~IsNone(search_item(Get(cs'.last_entities).bebida))
        /\ Get(cs'.last_entities).tamano = None)
          => LET item == Get(search_item(Get(cs'.last_entities).bebida))
             IN /\ response'.text = <<"size_prompt", item.name>>
                /\ response'.suggested_actions = item.sizes
                /\ cs'.current_order = cs.current_order]_vars

\* C9: an ordenar_bebida turn naming a beverage of the menu and one of its
\* sizes appends exactly one OrderItem of that size to current_order
\* (created when absent) and sets mode = PURCHASE; onto an empty order and
\* with no customizations, the total is then the base price of the size.
C9_SizedOrderAppendsOneItem ==
    [][(ClassifiedAs(last', "ordenar_bebida")
        /\ Get(cs'.last_entities).bebida # None
        /\ ~IsNone(search_item(Get(cs'.last_entities).bebida))
        /\ \E i \in 1..Len(Get(search_item(Get(cs'.last_entities).bebida)).sizes) :
              Get(search_item(Get(cs'.last_entities).bebida)).sizes[i]
                 = Get(cs'.last_entities).tamano)
          => LET e == Get(cs'.last_entities)
                 item == Get(search_item(e.bebida))
             IN /\ ~IsNone(cs'.current_order)
                /\ ItemsOf(cs'.current_order)
                      = Append(ItemsOf(cs.current_order),
                               OrderItem(item, e.tamano, e.personalizaciones, 1))
                /\ cs'.mode = "purchase"
                /\ (ItemsOf(cs.current_order) = <<>> /\ e.personalizaciones = <<>>)
                      => Get(cs'.current_order).total = item.prices[e.tamano]]_vars

C9_Witness ==
    /\ ClassifiedAs(last, "ordenar_bebida")
    /\ cs.mode = "purchase"
    /\ Get(cs.last_entities).tamano = "grande"
    /\ OrderLen(cs.current_order) = 1
    /\ Get(cs.current_order).total = 350
    /\ response.text = <<"added_beverage", "Latte", "grande", 350>>

\* C10: an ordenar_alimento turn asks for no intent confirmation, and when
\* its message names a food that search_food_item finds, it appends exactly
\* one OrderItem for that food to current_order (created when absent) and
\* returns the 'added' Response carrying the order.
C10_FoodOrderAppendsOneItem ==
    [][(ClassifiedAs(last', "ordenar_alimento")
        /\ MessageOf(Get(cs'.last_input)).alimento # None
        /\ ~IsNone(search_food_item(MessageOf(Get(cs'.last_input)).alimento)))
          => LET m == MessageOf(Get(cs'.last_input))
                 item == Get(search_food_item(m.alimento))
             IN /\ ~cs'.pending_intent_confirmation
                /\ ItemsOf(cs'.current_order)
                      = Append(ItemsOf(cs.current_order),
                               OrderItem(item, "individual",
                                         Get(cs'.last_entities).personalizaciones, 1))
                /\ response'.text = <<"added_food", item.name>>
                /\ response'.order = cs'.current_order]_vars

\* C11: a turn classified cancelar_orden leaves a fresh ConversationState
\* and returns the Response that confirms the cancellation.
C11_CancelTurnResetsState ==
    [][ClassifiedAs(last', "cancelar_orden")
          => /\ cs' = ConversationState
             /\ response'.text = <<"order_cancelled">>]_vars

\* C12: every handle_intent call for cancelar_orden returns the
\* cancellation Response and leaves a fresh ConversationState, whatever the
\* state before it; a second call in a row returns the same Response and
\* leaves the same state as the first.
C12_CancellationIdempotent ==
    [][(last'.op = "handle" /\ last'.intent = "cancelar_orden")
          => /\ cs' = ConversationState
             /\ response' = Response(<<"order_cancelled">>,
                                     <<"Ver menu", "Ordenar otra cosa">>, NoneVal)
             /\ ~raised'
             /\ last'.twice => (response' = response /\ cs' = cs)]_vars

C12_Witness ==
    /\ last.op = "handle" /\ last.intent = "cancelar_orden" /\ last.twice
    /\ cs = ConversationState
    /\ response.text = <<"order_cancelled">>

\* C13: a turn classified with an intent that has no handler returns the
\* generic clarification prompt and leaves every field of the
\* conversation state as it was.
C13_UnknownIntentKeepsState ==
    [][ClassifiedAs(last', "saludo")
          => /\ response'.text[1] = "unknown_intent"
             /\ cs' = cs]_vars

\* C14: a turn classified consultar_menu leaves current_order, mode and
\* the pending flags as they were, and renders the menu when the menu can
\* be read.
C14_MenuKeepsOrder ==
    [][(last'.op = "turn" /\ last'.intent = "consultar_menu")
          => /\ cs'.current_order = cs.current_order
             /\ cs'.mode = cs.mode
             /\ cs'.pending_confirmation = cs.pending_confirmation
             /\ cs'.pending_intent_confirmation = cs.pending_intent_confirmation
             /\ cs'.pending_payment = cs.pending_payment
             /\ ~raised'
             /\ last'.fail = "none" => response'.text[1] = "menu"]_vars

C14_Witness ==
    /\ last.op = "turn" /\ last.intent = "consultar_menu" /\ last.fail = "none"
    /\ response.text[1] = "menu"
    /\ OrderLen(cs.current_order) >= 1
    /\ cs.mode = "purchase"

\* C15: a turn classified preguntar_precio answers with the price listing
\* of the beverage its message names when the menu has it, else of the
\* food it names when the menu has it, and else with the clarification
\* question.
C15_PriceQueryAnswers ==
    [][ClassifiedAs(last', "preguntar_precio")
          => LET m == MessageOf(Get(cs'.last_input))
                 beverage == IF m.bebida # None THEN search_item(m.bebida) ELSE NoneVal
                 food == IF m.alimento # None
                         THEN search_food_item(m.alimento) ELSE NoneVal
             IN IF ~IsNone(beverage)
                THEN /\ response'.text[1] = "price_listing"
                     /\ response'.text[2] = Get(beverage).name
                ELSE IF ~IsNone(food)
                THEN /\ response'.text[1] = "price_listing"
                     /\ response'.text[2] = Get(food).name
                ELSE response'.text[1] = "ask_price_product"]_vars

\* C16: after a turn classified preguntar_precio, mode is QUERY and
\* current_order is what it was before the turn.
C16_PriceQueryKeepsOrder ==
    [][(last'.op = "turn" /\ last'.intent = "preguntar_precio")
          => /\ cs'.mode = "query"
             /\ cs'.current_order = cs.current_order]_vars

C16_Witness ==
    /\ last.op = "turn" /\ last.intent = "preguntar_precio"
    /\ cs.mode = "query"
    /\ OrderLen(cs.current_order) >= 1
    /\ Get(cs.last_entities).bebida = "latte"

\* C17: a turn taken while pending_payment is true invokes neither the
\* entity extractor nor the intent classifier.
C17_PaymentTurnInvokesNothing ==
    [][(cs.pending_payment /\ last'.op = "payment")
          => calls' = [process_input |-> 0, predict |-> 0]]_vars

C17_Witness ==
    /\ last.op = "payment"
    /\ IsPaymentSelection(last.text)
    /\ calls = [process_input |-> 0, predict |-> 0]
    /\ cs = ConversationState

\* C18: a turn taken with no payment pending invokes the entity extractor
\* exactly once and the intent classifier exactly once.
C18_OncePerTurn ==
    [][(~cs.pending_payment /\ last'.op = "turn")
          => calls' = [process_input |-> 1, predict |-> 1]]_vars

\* C19: a turn in which the extractor or the classifier fails returns the
\* apology Response and leaves every field of the conversation state as
\* it was.
C19_FailureKeepsState ==
    [][(last'.op = "turn" /\ last'.fail \in {"extractor", "classifier"})
          => /\ cs' = cs
             /\ response'.text[1] = "process_error"
             /\ response'.suggested_actions = <<"Ver menu", "Empezar de nuevo">>
             /\ response'.order = cs.current_order
             /\ ~raised']_vars

C19_Witness ==
    /\ last.op = "turn" /\ last.fail = "classifier"
    /\ calls.predict = predict_retries + 1
    /\ response.text[1] = "process_error"
    /\ cs.mode = "purchase"
    /\ OrderLen(cs.current_order) >= 1

\* C20: an ordering or price turn whose message names a beverage or a
\* food the menu does not have answers with a clarification prompt and
\* adds no item to the order.
C20_LookupMissClarifies ==
    [][LET m == MessageOf(Get(cs'.last_input))
           no_beverage == m.bebida # None /\ IsNone(search_item(m.bebida))
           no_food == m.alimento # None /\ IsNone(search_food_item(m.alimento))
       IN (\/ ClassifiedAs(last', "ordenar_bebida") /\ no_beverage
           \/ ClassifiedAs(last', "ordenar_alimento") /\ no_food
           \/ ClassifiedAs(last', "preguntar_precio") /\ no_beverage /\ no_food)
             => /\ response'.text[1] \in {"ask_beverage", "food_not_found",
                                          "ask_price_product"}
                /\ ItemsOf(cs'.current_order) = ItemsOf(cs.current_order)]_vars

\* a token of the form "category:option" that the surcharge table prices
InTable(token) ==
    /\ Len(token) = 3 /\ token[2] = ":"
    /\ token[1] \in DOMAIN customization_prices
    /\ token[3] \in DOMAIN customization_prices[token[1]]

\* the tokens of an item
TokensOf(item) == {item.customizations[i] : i \in 1..Len(item.customizations)}

\* the price of the size of an item, 0 when the menu item has no such size
BasePrice(item) ==
    IF item.size \in DOMAIN item.menu_item.prices
    THEN item.menu_item.prices[item.size] ELSE 0

\* the breakdown the specification asks for: the base price, an entry for
\* each token of the table, and their sum
Expected(item) ==
    LET keys == {t \in TokensOf(item) : InTable(t)}
        cp == [t \in keys |-> customization_prices[t[1]][t[3]] * item.quantity]
    IN [exc |-> FALSE,
        base_price |-> BasePrice(item) * item.quantity,
        customization_prices |-> cp,
        total |-> BasePrice(item) * item.quantity + SumSet(cp, keys)]

\* C21: calculate_item_price of an item with a token that has no ":"
\* raises nothing, has no surcharge entry for that token, and prices the
\* base price and the other tokens as it does without it.
C21_MalformedTokenIgnored ==
    \A p \in {x \in {pricing} : ~IsNone(x)} :
       (\E t \in TokensOf(p[1].item) : \A i \in 1..Len(t) : t[i] # ":")
          => p[1].result = Expected(p[1].item)

\* C22: calculate_item_price of an item with a token that has two or more
\* ":" raises nothing: the token is split at its first ":", so that its
\* option is no option of the table and the token adds no surcharge.
C22_SplitsOnFirstSeparator ==
    \A p \in {x \in {pricing} : ~IsNone(x)} :
       (\E t \in TokensOf(p[1].item) :
           Cardinality({i \in 1..Len(t) : t[i] = ":"}) >= 2)
          => p[1].result = Expected(p[1].item)

\* C23: for every OrderItem, calculate_item_price returns the price of the
\* size times the quantity as base_price, one entry (surcharge times
\* quantity, keyed by the token) for each token whose category and option
\* are in the surcharge table and none for the other tokens, and their sum
\* as total.
C23_BreakdownOfEveryItem ==
    \A p \in {x \in {pricing} : ~IsNone(x)} : p[1].result = Expected(p[1].item)

\* the total of an Optional[Order]; 0 when there is no order
TotalOf(current_order) ==
    IF IsNone(current_order) THEN 0 ELSE Get(current_order).total

\* C24: an ordenar_bebida turn naming a beverage of the menu and a size
\* the beverage does not have raises nothing: the item is priced with base
\* price 0 and appended to the order, and the Response is the 'added' one.
C24_UnknownSizePricedAtZero ==
    [][(ClassifiedAs(last', "ordenar_bebida")
        /\ Get(cs'.last_entities).bebida # None
        /\ ~IsNone(search_item(Get(cs'.last_entities).bebida))
        /\ Get(cs'.last_entities).tamano # None
        /\ Get(cs'.last_entities).tamano
              \notin DOMAIN Get(search_item(Get(cs'.last_entities).bebida)).prices)
          => LET e == Get(cs'.last_entities)
                 item == Get(search_item(e.bebida))
                 order_item == OrderItem(item, e.tamano, e.personalizaciones, 1)
             IN /\ ~raised'
                /\ ItemsOf(cs'.current_order)
                      = Append(ItemsOf(cs.current_order), order_item)
                /\ TotalOf(cs'.current_order) = TotalOf(cs.current_order)
                /\ response'.text = <<"added_beverage", item.name, e.tamano,
                                      Expected(order_item).total>>
                /\ Expected(order_item).base_price = 0
                /\ response'.order = cs'.current_order]_vars

C24_Witness ==
    /\ ClassifiedAs(last, "ordenar_bebida")
    /\ Get(cs.last_entities).tamano = "venti"
    /\ response.text = <<"added_beverage", "Latte", "venti", 0>>
    /\ OrderLen(cs.current_order) = 2
    /\ Get(cs.current_order).items[1].size = "grande"
    /\ Get(cs.current_order).total = 350

\* C28: with at least one item in the order, a confirmar_orden turn
\* returns the order summary with the payment options and sets
\* pending_payment; the turn after it with the text "2" returns the
\* payment-success message and leaves no order.
C28_ConfirmThenPay ==
    [][/\ (last'.op = "turn" /\ last'.intent = "confirmar_orden"
           /\ ~cs.pending_payment /\ OrderLen(cs.current_order) >= 1)
            => /\ response'.text = <<"order_confirmed", "payment_options">>
               /\ response'.order = cs.current_order
               /\ cs'.pending_payment
       /\ (cs.pending_payment /\ last'.op = "payment" /\ last'.text = <<"2">>)
            => /\ response'.text = <<"payment_success", "Transferencia">>
               /\ IsNone(cs'.current_order)]_vars

\* C29: a process_message turn keeps every item of current_order in its
\* place and keeps the order itself, unless it is a valid payment
\* selection made while a payment is pending, or an order cancellation.
C29_OnlyPaymentClearsOrder ==
    [][\/ /\ ~IsNone(cs.current_order) => ~IsNone(cs'.current_order)
          /\ Len(ItemsOf(cs'.current_order)) >= Len(ItemsOf(cs.current_order))
          /\ SubSeq(ItemsOf(cs'.current_order), 1, Len(ItemsOf(cs.current_order)))
                = ItemsOf(cs.current_order)
       \/ cs.pending_payment /\ last'.op = "payment" /\ IsPaymentSelection(last'.text)
       \/ ClassifiedAs(last', "cancelar_orden")]_vars

C29_Witness ==
    /\ last.op = "payment" /\ last.text = <<"2">>
    /\ IsNone(cs.current_order)
    /\ response.text = <<"payment_success", "Transferencia">>

\* the turn process_message takes for the intent and the entities a
\* conversation state stores, were they classified and extracted from the
\* stored text in that state
Direct(state, fail) ==
    process_message([state EXCEPT !.pending_intent_confirmation = FALSE],
                    Get(state.last_input), Get(state.last_entities),
                    state.predicted_intent, fail, 0)

C30_HandleIntentIsTotal ==
    [][(last'.op = "handle")
          => /\ ~raised'
             /\ response'.text # <<>>
             /\ (last'.intent \notin (CallsMenu \cup {"confirmar_orden", "cancelar_orden"})
                    => response' = _handle_unknown_intent(cs).resp)]_vars

\* the items of an order without the item at position i
Without(items, i) ==
    [j \in 1..(Len(items) - 1) |-> IF j < i THEN items[j] ELSE items[j + 1]]

C32_RemoveAbsentKeepsOrder ==
    [][(last'.op = "remove_item"
        /\ \A i \in 1..Len(order.items) : order.items[i] # last'.item)
          => /\ order'.items = order.items
             /\ order'.total = order.total]_vars

C32_Witness ==
    /\ last.op = "remove_item"
    /\ order_raised
    /\ Len(order.items) = 2
    /\ order.total > 0

\* C34: a calculate_item_price or calculate_order_total call leaves the
\* surcharge table of the calculator and the items it is given (their menu
\* items with them) as they were, and a call with the argument of the call
\* before it returns what that call returned.
C34_PricingIsPure ==
    [][~IsNone(pricing')
          => /\ Get(pricing').self = Calculator
             /\ Get(pricing').self.customization_prices = customization_prices
             /\ Get(pricing').after = Get(pricing').before
             /\ (~IsNone(pricing)
                 /\ Get(pricing').op = Get(pricing).op
                 /\ Get(pricing').before = Get(pricing).before)
                   => Get(pricing').result = Get(pricing).result]_vars

C34_Witness ==
    /\ ~IsNone(pricing)
    /\ Get(pricing).op = "calculate_order_total"
    /\ Len(Get(pricing).before) = 2
    /\ Get(pricing).before[1].customizations = <<LecheAlmendra>>
    /\ Get(pricing).before[1].quantity = 2
    /\ Get(pricing).before[1].size = "grande"
    /\ Get(pricing).before[1].menu_item.id = "latte"
    /\ Get(pricing).before[2] = Get(pricing).before[1]
    /\ Get(pricing).result = [exc |-> FALSE, total |-> 1600]
    /\ Get(pricing).self = PriceCalculator

\* C35: mode becomes PURCHASE only in a turn that appends an item to the
\* order: an ordering turn that adds nothing leaves mode as it was.
C35_PurchaseModeOnlyWhenAdded ==
    [][/\ (cs.mode # "purchase" /\ cs'.mode = "purchase")
            => Len(ItemsOf(cs'.current_order)) > Len(ItemsOf(cs.current_order))
       /\ (last'.op = "turn"
           /\ last'.intent \in {"ordenar_bebida", "ordenar_alimento"}
           /\ ItemsOf(cs'.current_order) = ItemsOf(cs.current_order))
            => cs'.mode = cs.mode]_vars

\* C36: in every state reached by process_message turns the conversation
\* state holds no order or an order with at least one item.
C36_NoEmptyOrder ==
    IsNone(cs.current_order) \/ Len(Get(cs.current_order).items) >= 1

\* C37: an ordenar_bebida or ordenar_alimento turn that is answered with an
\* error apology leaves current_order, its items and its total as they
\* were before the turn.
C37_FailedOrderingKeepsOrder ==
    [][(last'.op = "turn"
        /\ last'.intent \in {"ordenar_bebida", "ordenar_alimento"}
        /\ response'.text # <<>>
        /\ response'.text[1] \in {"order_error", "process_error"})
          => cs'.current_order = cs.current_order]_vars

AllRaised(w) == \A i \in 1..Len(w.outcomes) : ~w.outcomes[i]

\* C38: a call through retry_with_backoff(retries = r) comes to an end; it
\* invokes the operation at most r + 1 times, and an attempt in which the
\* operation returns is the last one: the wrapper returns its value.
C38_TerminatesWithinAttempts ==
    /\ [](/\ Len(retried.outcomes) <= retried.retries + 1
          /\ \A i \in 1..Len(retried.outcomes) :
                retried.outcomes[i]
                   => /\ i = Len(retried.outcomes)
                      /\ retried.status = "returned"
                      /\ retried.result = i
          /\ retried.status = "returned"
                => /\ retried.outcomes # <<>>
                   /\ retried.outcomes[Len(retried.outcomes)])
    /\ (retried.status = "running") ~> (retried.status # "running")

C38_Witness ==
    /\ retried.status = "returned"
    /\ retried.retries = 3
    /\ retried.outcomes = <<FALSE, FALSE, TRUE>>
    /\ retried.result = 3
    /\ Len(retried.waits) = 2

\* C39: when all r + 1 attempts of a call through retry_with_backoff(r, b)
\* raise, the wrapper raises RuntimeError, having slept b, 2b, ..., b x
\* 2^(r-1) seconds, once between each two attempts and not after the last;
\* and it raises in no other case.
C39_RaisesAfterDoublingWaits ==
    /\ (retried.status # "idle" /\ AllRaised(retried)
        /\ Len(retried.outcomes) = retried.retries + 1)
          => /\ retried.status = "raised"
             /\ retried.error = "RuntimeError"
             /\ retried.waits = [k \in 1..retried.retries |->
                                    retried.backoff_in_seconds * 2 ^ (k - 1)]
    /\ retried.status = "raised"
          => /\ AllRaised(retried)
             /\ Len(retried.outcomes) = retried.retries + 1

C39_Witness ==
    /\ retried.status = "raised"
    /\ retried.retries = 3
    /\ retried.backoff_in_seconds = 2
    /\ retried.waits = <<2, 4, 8>>
    /\ Len(retried.outcomes) = 4

====
